---- MODULE Spec2Model ----
(***************************************************************************)
(* Model of the Prefect Terraform provider's deployment resource           *)
(* (internal/provider/resources/deployment.go) and of its accounts API     *)
(* client.  Every handler is one action; text that the code parses         *)
(* (import identifiers, UUIDs) is a sequence of one-character strings.     *)
(***************************************************************************)
EXTENDS Integers, Sequences, FiniteSets, TLC

\* state: the Terraform state of the deployment resource that the next
\*        request carries (NoState when the resource is not in the state);
\* last:  the handler of DeploymentResource invoked last, its inputs and what
\*        it left (diagnostics, response state, client calls);
\* acc:   the AccountsClient call made last, its inputs and what it returned.
VARIABLES state, last, acc

vars == <<state, last, acc>>

(***************************************************************************)
(* Bounds of the model.                                                    *)
(***************************************************************************)
\* how many distinct deployments the remote API may answer with
NumDeployments == 2
\* how many distinct account identifiers the accounts client is called with
NumAccounts == 2

(***************************************************************************)
(* Text and UUIDs (github.com/google/uuid as used by the resource).        *)
(***************************************************************************)
HexLower == <<"0","1","2","3","4","5","6","7","8","9","a","b","c","d","e","f">>
HexUpper == <<"0","1","2","3","4","5","6","7","8","9","A","B","C","D","E","F">>

IsHex(c) == \E i \in 1..16 : HexLower[i] = c \/ HexUpper[i] = c

\* value of one hexadecimal digit (uuid.xvalues)
xvalue(c) == (CHOOSE i \in 1..16 : HexLower[i] = c \/ HexUpper[i] = c) - 1

\* strings.EqualFold on the letters of "urn:uuid:"
Fold(c) ==
    CASE c = "U" -> "u" [] c = "R" -> "r" [] c = "N" -> "n"
      [] c = "I" -> "i" [] c = "D" -> "d" [] OTHER -> c

UrnPrefix == <<"u","r","n",":","u","u","i","d",":">>

\* positions (1-based) of the first hex digit of each of the 16 bytes in the
\* canonical 36 character form
BytePos == <<1, 3, 5, 7, 10, 12, 15, 17, 20, 22, 25, 27, 29, 31, 33, 35>>

NoUUID == [ok |-> FALSE, uuid |-> <<>>]

\* the 36 character form xxxxxxxx-xxxx-xxxx-xxxx-xxxxxxxxxxxx; s may be longer
\* (the brace form keeps its closing character, which is never read)
parseCanonical(s) ==
    IF s[9] # "-" \/ s[14] # "-" \/ s[19] # "-" \/ s[24] # "-"
    THEN NoUUID
    ELSE IF \E i \in 1..16 : ~IsHex(s[BytePos[i]]) \/ ~IsHex(s[BytePos[i] + 1])
         THEN NoUUID
         ELSE [ok |-> TRUE,
               uuid |-> [i \in 1..16 |->
                          16 * xvalue(s[BytePos[i]]) + xvalue(s[BytePos[i] + 1])]]

\* uuid.Parse: decodes the 36, 45 (urn:uuid:), 38 ({...}) and 32 character forms
uuidParse(s) ==
    CASE Len(s) = 36 -> parseCanonical(s)
      [] Len(s) = 45 ->
            IF [i \in 1..9 |-> Fold(s[i])] # UrnPrefix
            THEN NoUUID
            ELSE parseCanonical(SubSeq(s, 10, 45))
      [] Len(s) = 38 -> parseCanonical(SubSeq(s, 2, 38))
      [] Len(s) = 32 ->
            IF \E i \in 1..32 : ~IsHex(s[i])
            THEN NoUUID
            ELSE [ok |-> TRUE,
                  uuid |-> [i \in 1..16 |->
                             16 * xvalue(s[2 * i - 1]) + xvalue(s[2 * i])]]
      [] OTHER -> NoUUID

\* uuid.UUID.String: lower-case hex, dashes after bytes 4, 6, 8 and 10
uuidString(u) ==
    LET hex(i) == <<HexLower[(u[i] \div 16) + 1], HexLower[(u[i] % 16) + 1]>>
        RECURSIVE enc(_)
        enc(i) == IF i > 16 THEN <<>>
                  ELSE hex(i) \o (IF i \in {4, 6, 8, 10} THEN <<"-">> ELSE <<>>)
                       \o enc(i + 1)
    IN enc(1)

\* strings.Split(s, sep) for a one-character separator
RECURSIVE Split(_, _)
Split(s, sep) ==
    IF \A i \in 1..Len(s) : s[i] # sep
    THEN <<s>>
    ELSE LET k == CHOOSE i \in 1..Len(s) :
                     s[i] = sep /\ \A j \in 1..(i - 1) : s[j] # sep
         IN <<SubSeq(s, 1, k - 1)>> \o Split(SubSeq(s, k + 1, Len(s)), sep)

(***************************************************************************)
(* Terraform values and API values.                                        *)
(***************************************************************************)
\* a null types.String / TimestampValue
Null == "<null>"
\* a null string attribute whose text the code parses (id, *_id)
NullText == <<"<null>">>
\* a nil *time.Time of the API
NilTime == "<nil>"
\* the response state before any attribute is written
NoState == [raw |-> "null"]
\* no deployment was returned
NoDep == [none |-> TRUE]

\* order in which encoding/json writes the keys of a map
KeyOrder == <<"a", "b">>

\* json.Marshal of a map[string]interface{}: "null" for a nil map, otherwise
\* the object with its keys sorted
Marshal(p) ==
    LET RECURSIVE members(_)
        members(i) ==
            IF i > Len(KeyOrder) THEN <<>>
            ELSE (IF KeyOrder[i] \in DOMAIN p.m
                  THEN <<KeyOrder[i], p.m[KeyOrder[i]]>> ELSE <<>>)
                 \o members(i + 1)
    IN IF p.nil THEN <<"null">> ELSE <<"{">> \o members(1) \o <<"}">>

\* json.Unmarshal of a JSON text into a map[string]interface{}: the text
\* null leaves the map nil, an object gives its members (the last value of a
\* repeated key wins)
jsonUnmarshal(text) ==
    IF text = <<"null">>
    THEN [nil |-> TRUE, m |-> <<>>]
    ELSE LET n == (Len(text) - 2) \div 2
             keys == {text[2 * i] : i \in 1..n}
             lastOf(k) == CHOOSE i \in 1..n :
                             text[2 * i] = k /\ \A j \in (i + 1)..n : text[2 * j] # k
         IN [nil |-> FALSE, m |-> [k \in keys |-> text[2 * lastOf(k) + 1]]]

\* jsontypes.Normalized.Unmarshal: a null (or unknown) value is an error
Unmarshal(v) ==
    IF v.null
    THEN [diags |-> <<"Normalized JSON Unmarshal Error">>, data |-> [nil |-> TRUE, m |-> <<>>]]
    ELSE [diags |-> <<>>, data |-> jsonUnmarshal(v.text)]

\* jsontypes.NewNormalizedValue
NewNormalizedValue(text) == [null |-> FALSE, text |-> text]

\* customtypes.NewTimestampPointerValue
NewTimestampPointerValue(t) == IF t = NilTime THEN Null ELSE t

\* customtypes.NewUUIDValue
NewUUIDValue(u) == uuidString(u)

\* types.ListValueFrom of a []string: a nil slice gives a null list
ListValueFrom(tags) == [null |-> tags.nil, elems |-> tags.elems]

\* types.BoolValue
BoolValue(b) == IF b THEN "true" ELSE "false"

\* diag.Diagnostics.HasError (every diagnostic of the resource is an error)
HasError(diags) == Len(diags) > 0

(***************************************************************************)
(* The values the model draws its inputs from.                             *)
(***************************************************************************)
\* the i-th deployment the remote API may return
Dep(i) ==
    [ID |-> [k \in 1..16 |-> 160 + i],
     Created |-> IF i % 2 = 1 THEN "2024-01-01T00:00:00Z" ELSE NilTime,
     Updated |-> IF i % 2 = 1 THEN NilTime ELSE "2024-02-02T00:00:00Z",
     Description |-> IF i % 2 = 1 THEN "" ELSE "described",
     EnforceParameterSchema |-> (i % 2 = 0),
     Entrypoint |-> "flow.py:main",
     FlowID |-> [k \in 1..16 |-> 176 + i],
     ManifestPath |-> "",
     Name |-> "deployment-" \o ToString(i),
     Parameters |-> IF i = 1 THEN [nil |-> TRUE, m |-> <<>>]
                    ELSE [nil |-> FALSE,
                          m |-> [k \in (IF i % 2 = 0 THEN {"a", "b"} ELSE {"a"})
                                   |-> ToString(i)]],
     Path |-> "/srv",
     Paused |-> (i % 2 = 1),
     Tags |-> IF i = 1 THEN [nil |-> TRUE, elems |-> <<>>]
              ELSE [nil |-> FALSE, elems |-> <<"tag-" \o ToString(i)>>],
     Version |-> "v" \o ToString(i),
     WorkPoolName |-> "pool",
     WorkQueueName |-> IF i % 2 = 1 THEN "" ELSE "queue"]

Deployments == {Dep(i) : i \in 1..NumDeployments}

\* what a call of the deployments client returns: an error or a deployment
ApiResults ==
    {[ok |-> FALSE, dep |-> NoDep]} \cup {[ok |-> TRUE, dep |-> d] : d \in Deployments}

\* what r.client.Deployments returns: a client, or an error together with a
\* nil or a non-nil client value
ClientResults == {"ok", "errNil", "errUsable"}

WorkspaceUUID == [k \in 1..16 |-> 205]

\* a resource configuration: the attributes the practitioner may set
Config(ws, params) ==
    [id |-> NullText, created |-> Null, updated |-> Null,
     account_id |-> NullText, workspace_id |-> ws,
     description |-> Null, enforce_parameter_schema |-> "false",
     entrypoint |-> Null, flow_id |-> uuidString([k \in 1..16 |-> 177]),
     manifest_path |-> Null, name |-> "deployment-1",
     parameters |-> params, path |-> Null, paused |-> "false",
     tags |-> [null |-> FALSE, elems |-> <<>>], version |-> Null,
     work_pool_name |-> Null, work_queue_name |-> Null]

Configs ==
    {Config(NullText, [null |-> TRUE, text |-> <<>>]),
     Config(NullText, [null |-> FALSE, text |-> <<"{", "}">>]),
     Config(uuidString(WorkspaceUUID),
            [null |-> FALSE, text |-> <<"{", "b", "2", "a", "1", "}">>])}

\* the import identifiers handed to ImportState
Foo == <<"f", "o", "o">>
Bar == <<"b", "a", "r">>
Comma == <<",">>
Canon1 == uuidString([k \in 1..16 |-> 161])
CanonW == uuidString(WorkspaceUUID)
\* CanonW in upper case, without dashes, as a URN and in braces
UpperW == [i \in 1..36 |-> IF CanonW[i] = "c" THEN "C" ELSE IF CanonW[i] = "d" THEN "D" ELSE CanonW[i]]
PlainW == [i \in 1..32 |-> IF i % 2 = 1 THEN "c" ELSE "D"]
UrnW == <<"U", "R", "N", ":", "u", "u", "i", "d", ":">> \o CanonW
BraceW == <<"{">> \o CanonW \o <<"}">>

ImportIDs ==
    {<<>>, Comma, Foo, Canon1,
     Foo \o Comma, Comma \o Foo, Foo \o Comma \o Bar,
     Foo \o Comma \o Bar \o Comma \o Foo,
     Canon1 \o Comma \o Comma,
     Foo \o Comma \o CanonW, Canon1 \o Comma \o CanonW,
     Canon1 \o Comma \o UpperW, Canon1 \o Comma \o PlainW,
     Canon1 \o Comma \o UrnW, Canon1 \o Comma \o BraceW,
     Canon1 \o Comma \o SubSeq(CanonW, 1, 35),
     Canon1 \o Comma \o [CanonW EXCEPT ![9] = "0"],
     Canon1 \o Comma \o [CanonW EXCEPT ![36] = "g"]}

(***************************************************************************)
(* DeploymentResource.                                                     *)
(***************************************************************************)
\* what one invocation of a handler leaves: the diagnostics, the response
\* state, whether the handler wrote it, the calls made on the deployments
\* client, whether the handler panicked, and the deployment the API returned
Result(diags, st, wrote, calls, panicked, api) ==
    [diags |-> diags, state |-> st, wrote |-> wrote, calls |-> calls,
     panicked |-> panicked, api |-> api]

\* a state in which every attribute is null
EmptyState ==
    [id |-> NullText, created |-> Null, updated |-> Null,
     account_id |-> NullText, workspace_id |-> NullText,
     description |-> Null, enforce_parameter_schema |-> Null,
     entrypoint |-> Null, flow_id |-> NullText,
     manifest_path |-> Null, name |-> Null,
     parameters |-> [null |-> TRUE, text |-> <<>>], path |-> Null, paused |-> Null,
     tags |-> [null |-> TRUE, elems |-> <<>>], version |-> Null,
     work_pool_name |-> Null, work_queue_name |-> Null]

\* resp.State.SetAttribute(ctx, path.Root(attr), value)
SetAttribute(st, attr, value) ==
    [(IF st = NoState THEN EmptyState ELSE st) EXCEPT ![attr] = value]

maxInputCount == 2

\* a slip of the index: the last part instead of the first
importIdentifierLast(inputParts) == inputParts[Len(inputParts)]

\* identifier := inputParts[0]
importIdentifier(inputParts) == inputParts[1]

\* ImportState imports the resource into Terraform state
ImportState(reqID) ==
    LET inputParts == Split(reqID, ",")
    IN IF Len(inputParts) > maxInputCount
       THEN Result(<<"Unexpected Import Identifier">>, NoState, FALSE, <<>>, FALSE, NoDep)
       ELSE IF Len(inputParts) = maxInputCount
               /\ (inputParts[1] = <<>> \/ inputParts[2] = <<>>)
       THEN Result(<<"Unexpected Import Identifier">>, NoState, FALSE, <<>>, FALSE, NoDep)
       ELSE LET s1 == SetAttribute(NoState, "id", importIdentifier(inputParts))
            IN IF Len(inputParts) = 2 /\ inputParts[2] # <<>>
               THEN LET workspaceID == uuidParse(inputParts[2])
                    IN IF ~workspaceID.ok
                       THEN Result(<<"ParseUUIDErrorDiagnostic">>, s1, TRUE,
                                   <<>>, FALSE, NoDep)
                       ELSE Result(<<>>,
                                   SetAttribute(s1, "workspace_id",
                                                uuidString(workspaceID.uuid)),
                                   TRUE, <<>>, FALSE, NoDep)
               ELSE Result(<<>>, s1, TRUE, <<>>, FALSE, NoDep)

\* copyDeploymentToModel copies an api.Deployment to a DeploymentResourceModel
copyDeploymentToModel(deployment, model) ==
    [model EXCEPT
       !.id = uuidString(deployment.ID),
       !.created = NewTimestampPointerValue(deployment.Created),
       !.updated = NewTimestampPointerValue(deployment.Updated),
       !.description = deployment.Description,
       !.enforce_parameter_schema = BoolValue(deployment.EnforceParameterSchema),
       !.entrypoint = deployment.Entrypoint,
       !.flow_id = NewUUIDValue(deployment.FlowID),
       !.manifest_path = deployment.ManifestPath,
       !.name = deployment.Name,
       !.path = deployment.Path,
       !.paused = BoolValue(deployment.Paused),
       !.version = deployment.Version,
       !.work_pool_name = deployment.WorkPoolName,
       !.work_queue_name = deployment.WorkQueueName,
       !.tags = ListValueFrom(deployment.Tags)]

\* a client call that is repeated once when it fails
CallRetried(client, method, ok) ==
    LET one == [method |-> method,
                res |-> IF client = "errNil" THEN "panic" ELSE IF ok THEN "ok" ELSE "err"]
    IN IF one.res = "err" THEN <<one, one>> ELSE <<one>>

\* one method call on the value r.client.Deployments returned: on a nil client
\* the call panics, otherwise it reaches the API and returns ok or an error
Call(client, method, ok) ==
    <<[method |-> method,
       res |-> IF client = "errNil" THEN "panic" ELSE IF ok THEN "ok" ELSE "err"]>>

\* the diagnostics after `client, err := r.client.Deployments(...)`: the error
\* is added and the handler goes on
clientDiags(diags, client) ==
    IF client = "ok" THEN diags ELSE Append(diags, "Error creating deployment client")

\* the outcome of the calls made so far: that of the last one
Outcome(calls) == calls[Len(calls)].res

\* Create creates the resource and sets the initial Terraform state
Create(plan, planOk, client, apiRes) ==
    LET d1 == IF planOk THEN <<>> ELSE <<"Config Read Error">>
        d2 == clientDiags(d1, client)
        data == Unmarshal(plan.parameters)
        d3 == d2 \o data.diags
        calls == Call(client, "Create", apiRes.ok)
    IN IF HasError(d1) THEN Result(d1, NoState, FALSE, <<>>, FALSE, NoDep)
       ELSE IF HasError(d2) THEN Result(d2, NoState, FALSE, <<>>, FALSE, NoDep)
       ELSE IF HasError(d3) THEN Result(d3, NoState, FALSE, <<>>, FALSE, NoDep)
       ELSE IF Outcome(calls) = "panic"
       THEN Result(d3, NoState, FALSE, calls, TRUE, NoDep)
       ELSE IF Outcome(calls) = "err"
       THEN Result(Append(d3, "Error creating deployment"), NoState, FALSE,
                   calls, FALSE, NoDep)
       ELSE Result(d3, copyDeploymentToModel(apiRes.dep, plan), TRUE,
                   calls, FALSE, apiRes.dep)

\* `if err != nil` after a call on the client
callFailed(calls) == Outcome(calls) = "err"

\* Read refreshes the Terraform state with the latest data
Read(prior, stateOk, client, apiRes) ==
    LET d1 == IF stateOk THEN <<>> ELSE <<"State Read Error">>
        d2 == clientDiags(d1, client)
        calls == Call(client, "Get", apiRes.ok)
    IN IF HasError(d1) THEN Result(d1, prior, FALSE, <<>>, FALSE, NoDep)
       ELSE IF prior.id # NullText
       THEN IF ~uuidParse(prior.id).ok
            THEN Result(Append(d2, "Error parsing Deployment ID"), prior, FALSE,
                        <<>>, FALSE, NoDep)
            ELSE IF Outcome(calls) = "panic"
            THEN Result(d2, prior, FALSE, calls, TRUE, NoDep)
            ELSE IF callFailed(calls)
            THEN Result(Append(d2, "Error refreshing deployment state"), prior,
                        FALSE, calls, FALSE, NoDep)
            ELSE Result(d2,
                        [copyDeploymentToModel(apiRes.dep, prior) EXCEPT
                           !.parameters =
                              NewNormalizedValue(Marshal(apiRes.dep.Parameters))],
                        TRUE, calls, FALSE, apiRes.dep)
       \* no call was made: err is still the error of r.client.Deployments,
       \* and without one the nil deployment is dereferenced
       ELSE IF client # "ok"
       THEN Result(Append(d2, "Error refreshing deployment state"), prior,
                   FALSE, <<>>, FALSE, NoDep)
       ELSE Result(d2, prior, FALSE, <<>>, TRUE, NoDep)

\* the error of client.Update left unchecked
updateFailedIgnored(calls) == FALSE

\* `if err != nil { ...; return }` after client.Update: the refresh is not
\* reached when the update failed
updateFailed(calls) == Outcome(calls) = "err"

\* Update updates the resource and sets the updated Terraform state on success
Update(model, prior, planOk, client, updOk, getRes) ==
    LET d1 == IF planOk THEN <<>> ELSE <<"Plan Read Error">>
        d2 == clientDiags(d1, client)
        parameters == Unmarshal(model.parameters)
        d3 == d2 \o parameters.diags
        calls1 == Call(client, "Update", updOk)
        calls2 == calls1 \o Call(client, "Get", getRes.ok)
    IN IF HasError(d1) THEN Result(d1, prior, FALSE, <<>>, FALSE, NoDep)
       ELSE IF ~uuidParse(model.id).ok
       THEN Result(Append(d2, "Error parsing Deployment ID"), prior, FALSE,
                   <<>>, FALSE, NoDep)
       ELSE IF HasError(d2) THEN Result(d2, prior, FALSE, <<>>, FALSE, NoDep)
       ELSE IF HasError(d3) THEN Result(d3, prior, FALSE, <<>>, FALSE, NoDep)
       ELSE IF Outcome(calls1) = "panic"
       THEN Result(d3, prior, FALSE, calls1, TRUE, NoDep)
       ELSE IF updateFailed(calls1)
       THEN Result(Append(d3, "Error updating deployment"), prior, FALSE,
                   calls1, FALSE, NoDep)
       ELSE IF Outcome(calls2) = "panic"
       THEN Result(d3, prior, FALSE, calls2, TRUE, NoDep)
       ELSE IF callFailed(calls2)
       THEN Result(Append(d3, "Error refreshing Deployment state"), prior, FALSE,
                   calls2, FALSE, NoDep)
       ELSE Result(d3,
                   [copyDeploymentToModel(getRes.dep, model) EXCEPT
                      !.parameters =
                         NewNormalizedValue(Marshal(getRes.dep.Parameters))],
                   TRUE, calls2, FALSE, getRes.dep)

\* Delete deletes the resource and removes the Terraform state on success
Delete(prior, stateOk, client, delOk) ==
    LET d1 == IF stateOk THEN <<>> ELSE <<"State Read Error">>
        d2 == clientDiags(d1, client)
        calls == Call(client, "Delete", delOk)
    IN IF HasError(d1) THEN Result(d1, prior, FALSE, <<>>, FALSE, NoDep)
       ELSE IF ~uuidParse(prior.id).ok
       THEN Result(Append(d2, "Error parsing Deployment ID"), prior, FALSE,
                   <<>>, FALSE, NoDep)
       ELSE IF Outcome(calls) = "panic"
       THEN Result(d2, prior, FALSE, calls, TRUE, NoDep)
       ELSE IF callFailed(calls)
       THEN Result(Append(d2, "Error deleting Deployment"), prior, FALSE,
                   calls, FALSE, NoDep)
       \* resp.State.Set(ctx, &state)
       ELSE Result(d2, prior, TRUE, calls, FALSE, NoDep)

(***************************************************************************)
(* AccountsClient.                                                         *)
(***************************************************************************)
StatusOK == 200
StatusNoContent == 204

\* the i-th account identifier
AccountID(i) == [k \in 1..16 |-> 192 + i]

\* what c.hc.Do may return: a transport error, or a response with a status
\* code and a body that is or is not the JSON of an account
Responses ==
    {[transportOk |-> FALSE, status |-> 0, bodyOk |-> FALSE]}
    \cup {[transportOk |-> TRUE, status |-> s, bodyOk |-> b] :
            s \in {200, 201, 204, 299, 404, 500}, b \in BOOLEAN}

\* http.NewRequestWithContext(ctx, method, c.endpoint+"/accounts/"+accountID.String(), body)
NewRequest(method, accountID) ==
    [method |-> method, path |-> <<"/accounts/">> \o uuidString(accountID)]

\* a transport that sends the request again when it failed
DoRetried(sent, req, resp) ==
    IF resp.transportOk THEN Append(sent, req) ELSE Append(Append(sent, req), req)

\* c.hc.Do(req): the requests sent so far, with this one
Do(sent, req, resp) == Append(sent, req)

\* what a call of the client returns: the errors (none or one), the requests
\* it sent, and whether an account was decoded
AccResult(errs, sent, decoded) == [errs |-> errs, sent |-> sent, decoded |-> decoded]

\* a status check that lets every 2xx code through
getStatusAny2xx(status) == status \in 200..299

\* the status check of Get
getStatusOk(status) == status = StatusOK

\* the status check of Update and Delete
writeStatusOk(status) == status = StatusOK \/ status = StatusNoContent

\* Get returns details for an account by ID
AccountsGet(accountID, reqOk, resp) ==
    LET req == NewRequest("GET", accountID)
        sent == Do(<<>>, req, resp)
    IN IF ~reqOk THEN AccResult(<<"error creating request">>, <<>>, FALSE)
       ELSE IF ~resp.transportOk THEN AccResult(<<"http error">>, sent, FALSE)
       ELSE IF ~getStatusOk(resp.status) THEN AccResult(<<"status code">>, sent, FALSE)
       ELSE IF ~resp.bodyOk THEN AccResult(<<"failed to decode response">>, sent, FALSE)
       ELSE AccResult(<<>>, sent, TRUE)

\* Update modifies an existing account by ID
AccountsUpdate(accountID, encodeOk, reqOk, resp) ==
    LET req == NewRequest("PATCH", accountID)
        sent == Do(<<>>, req, resp)
    IN IF ~encodeOk THEN AccResult(<<"failed to encode data">>, <<>>, FALSE)
       ELSE IF ~reqOk THEN AccResult(<<"error creating request">>, <<>>, FALSE)
       ELSE IF ~resp.transportOk THEN AccResult(<<"http error">>, sent, FALSE)
       ELSE IF ~writeStatusOk(resp.status) THEN AccResult(<<"status code">>, sent, FALSE)
       ELSE AccResult(<<>>, sent, FALSE)

\* Delete removes an account by ID
AccountsDelete(accountID, reqOk, resp) ==
    LET req == NewRequest("DELETE", accountID)
        sent == Do(<<>>, req, resp)
    IN IF ~reqOk THEN AccResult(<<"error creating request">>, <<>>, FALSE)
       ELSE IF ~resp.transportOk THEN AccResult(<<"http error">>, sent, FALSE)
       ELSE IF ~writeStatusOk(resp.status) THEN AccResult(<<"status code">>, sent, FALSE)
       ELSE AccResult(<<>>, sent, FALSE)

(***************************************************************************)
(* The state machine: Terraform invokes one handler at a time.             *)
(***************************************************************************)
NoInput == [none |-> TRUE]

Init ==
    /\ state = NoState
    /\ last = [op |-> "none", in |-> NoInput,
               res |-> Result(<<>>, NoState, FALSE, <<>>, FALSE, NoDep)]
    /\ acc = [op |-> "none", in |-> NoInput, out |-> AccResult(<<>>, <<>>, FALSE)]

\* terraform import: the imported state is kept unless a diagnostic is an error
CallImportState ==
    /\ state = NoState
    /\ \E reqID \in ImportIDs :
         LET r == ImportState(reqID)
         IN /\ last' = [op |-> "ImportState", in |-> [reqID |-> reqID], res |-> r]
            /\ state' = IF HasError(r.diags) THEN NoState ELSE r.state
    /\ UNCHANGED acc

\* terraform apply of a new resource
CallCreate ==
    /\ state = NoState
    /\ \E plan \in Configs, planOk \in BOOLEAN, client \in ClientResults,
          apiRes \in ApiResults :
         LET r == Create(plan, planOk, client, apiRes)
         IN /\ last' = [op |-> "Create",
                        in |-> [plan |-> plan, planOk |-> planOk, client |-> client,
                                api |-> apiRes],
                        res |-> r]
            /\ state' = r.state
    /\ UNCHANGED acc

\* terraform refresh of a resource that is in the state
CallRead ==
    /\ state # NoState
    /\ \E stateOk \in BOOLEAN, client \in ClientResults, apiRes \in ApiResults :
         LET r == Read(state, stateOk, client, apiRes)
         IN /\ last' = [op |-> "Read",
                        in |-> [prior |-> state, planOk |-> stateOk, client |-> client,
                                api |-> apiRes],
                        res |-> r]
            /\ state' = r.state
    /\ UNCHANGED acc

\* terraform apply of a changed resource: the plan is the configuration with
\* the id of the prior state (UseStateForUnknown)
CallUpdate ==
    /\ state # NoState
    /\ \E cfg \in Configs, planOk \in BOOLEAN, client \in ClientResults,
          updOk \in BOOLEAN, getRes \in ApiResults :
         LET plan == [cfg EXCEPT !.id = state.id]
             r == Update(plan, state, planOk, client, updOk, getRes)
         IN /\ last' = [op |-> "Update",
                        in |-> [plan |-> plan, prior |-> state, planOk |-> planOk,
                                client |-> client, updOk |-> updOk, api |-> getRes],
                        res |-> r]
            /\ state' = r.state
    /\ UNCHANGED acc

\* terraform destroy: without an error diagnostic Terraform drops the resource
CallDelete ==
    /\ state # NoState
    /\ \E stateOk \in BOOLEAN, client \in ClientResults, delOk \in BOOLEAN :
         LET r == Delete(state, stateOk, client, delOk)
         IN /\ last' = [op |-> "Delete",
                        in |-> [prior |-> state, planOk |-> stateOk, client |-> client,
                                delOk |-> delOk],
                        res |-> r]
            /\ state' = IF HasError(r.diags) \/ r.panicked THEN state ELSE NoState
    /\ UNCHANGED acc

Next ==
    \/ CallImportState
    \/ CallCreate
    \/ CallRead
    \/ CallUpdate
    \/ CallDelete

Spec == Init /\ [][Next]_vars

\* the accounts client, called on its own
CallAccountsGet ==
    /\ \E i \in 1..NumAccounts, reqOk \in BOOLEAN, resp \in Responses :
         acc' = [op |-> "Get",
                 in |-> [id |-> AccountID(i), encodeOk |-> TRUE, reqOk |-> reqOk,
                         resp |-> resp],
                 out |-> AccountsGet(AccountID(i), reqOk, resp)]
    /\ UNCHANGED <<state, last>>

CallAccountsUpdate ==
    /\ \E i \in 1..NumAccounts, encodeOk \in BOOLEAN, reqOk \in BOOLEAN,
          resp \in Responses :
         acc' = [op |-> "Update",
                 in |-> [id |-> AccountID(i), encodeOk |-> encodeOk, reqOk |-> reqOk,
                         resp |-> resp],
                 out |-> AccountsUpdate(AccountID(i), encodeOk, reqOk, resp)]
    /\ UNCHANGED <<state, last>>

CallAccountsDelete ==
    /\ \E i \in 1..NumAccounts, reqOk \in BOOLEAN, resp \in Responses :
         acc' = [op |-> "Delete",
                 in |-> [id |-> AccountID(i), encodeOk |-> TRUE, reqOk |-> reqOk,
                         resp |-> resp],
                 out |-> AccountsDelete(AccountID(i), reqOk, resp)]
    /\ UNCHANGED <<state, last>>

AccountsNext ==
    \/ CallAccountsGet
    \/ CallAccountsUpdate
    \/ CallAccountsDelete

AccountsSpec == Init /\ [][AccountsNext]_vars

(***************************************************************************)
(* The claims.                                                             *)
(***************************************************************************)
CRUD == {"Create", "Read", "Update", "Delete"}

Commas(s) == {i \in 1..Len(s) : s[i] = ","}

\* a well-formed import identifier: a non-empty id, optionally followed by one
\* comma and a non-empty workspace_id that is a UUID
WellFormed(s) ==
    \/ Commas(s) = {} /\ Len(s) > 0
    \/ \E k \in 1..Len(s) :
         /\ Commas(s) = {k}
         /\ 1 < k /\ k < Len(s)
         /\ uuidParse(SubSeq(s, k + 1, Len(s))).ok

\* the canonical text of a UUID: 36 characters, dashes at 9, 14, 19 and 24,
\* lower-case hexadecimal digits elsewhere
IsCanonical(s) ==
    /\ Len(s) = 36
    /\ \A i \in 1..36 :
         IF i \in {9, 14, 19, 24} THEN s[i] = "-"
         ELSE \E j \in 1..16 : HexLower[j] = s[i]

\* C1: ImportState returns an error diagnostic for every malformed import
\* identifier (anything that is not `id` or `id,workspace_id` with non-empty
\* parts and a UUID workspace_id, the empty string included).
C1_MalformedImportIsError ==
    (last.op = "ImportState" /\ ~WellFormed(last.in.reqID))
        => HasError(last.res.diags)

\* C2: ImportState accepts `id` and `id,workspace_id`: for one non-empty part
\* it ends without error, sets id to it and leaves workspace_id unwritten; for
\* two non-empty parts with a UUID second part it ends without error, sets id
\* to the first part and workspace_id to the canonical text of the second.
C2_ImportAcceptsBothForms ==
    last.op = "ImportState" =>
      LET s == last.in.reqID
          st == last.res.state
      IN /\ (Commas(s) = {} /\ Len(s) > 0) =>
               /\ ~HasError(last.res.diags)
               /\ st.id = s
               /\ st.workspace_id = NullText
         /\ \A k \in 1..Len(s) :
              (Commas(s) = {k} /\ 1 < k /\ k < Len(s)
                 /\ uuidParse(SubSeq(s, k + 1, Len(s))).ok) =>
                 /\ ~HasError(last.res.diags)
                 /\ st.id = SubSeq(s, 1, k - 1)
                 /\ IsCanonical(st.workspace_id)
                 /\ uuidParse(st.workspace_id).uuid
                      = uuidParse(SubSeq(s, k + 1, Len(s))).uuid

\* an import of `id,workspace_id` whose workspace_id is not in canonical form
C2_Witness ==
    /\ last.op = "ImportState"
    /\ last.in.reqID = Canon1 \o Comma \o UpperW
    /\ last.res.state.id = Canon1
    /\ last.res.state.workspace_id = CanonW
    /\ state = last.res.state

AccFailed == Len(acc.out.errs) > 0

\* C3 as stated: a call of the accounts client returns an error exactly when
\* the transport fails (building the request counted with it), the status code
\* is not 2xx, or JSON encoding or decoding fails; every 2xx code with a
\* well-formed body is a success.
C3_ErrorIffNon2xx ==
    acc.op # "none" =>
      (AccFailed <=>
         \/ ~acc.in.encodeOk
         \/ ~acc.in.reqOk
         \/ ~acc.in.resp.transportOk
         \/ acc.in.resp.status \notin 200..299
         \/ (acc.op = "Get" /\ ~acc.in.resp.bodyOk))

\* C3 as amended: the error comes exactly when encoding fails, the request
\* cannot be built, the transport fails, the status code is not 200 (Get) or
\* neither 200 nor 204 (Update, Delete), or the body of a Get does not decode.
C3_ErrorIffRejected ==
    acc.op # "none" =>
      (AccFailed <=>
         \/ ~acc.in.encodeOk
         \/ ~acc.in.reqOk
         \/ ~acc.in.resp.transportOk
         \/ (acc.op = "Get" /\ acc.in.resp.status # 200)
         \/ (acc.op # "Get" /\ acc.in.resp.status \notin {200, 204})
         \/ (acc.op = "Get" /\ ~acc.in.resp.bodyOk))

\* a 2xx answer that the client rejects
C3_Witness ==
    /\ acc.op = "Get"
    /\ acc.in.reqOk /\ acc.in.resp.transportOk /\ acc.in.resp.bodyOk
    /\ acc.in.resp.status = 204
    /\ acc.out.errs = <<"status code">>

\* C4 as stated: Create, Read, Update and Delete each issue at most one call
\* to the remote API per invocation.
C4_AtMostOneCall ==
    last.op \in CRUD => Len(last.res.calls) <= 1

\* C4 as amended: Create, Read and Delete issue at most one call; Update
\* issues at most two, the update and then, only after it succeeded, one Get.
C4_AtMostOneCallButUpdate ==
    LET calls == last.res.calls
    IN /\ last.op = "Create" => (Len(calls) <= 1 /\ \A i \in 1..Len(calls) : calls[i].method = "Create")
       /\ last.op = "Read" => (Len(calls) <= 1 /\ \A i \in 1..Len(calls) : calls[i].method = "Get")
       /\ last.op = "Delete" => (Len(calls) <= 1 /\ \A i \in 1..Len(calls) : calls[i].method = "Delete")
       /\ last.op = "Update" =>
            /\ Len(calls) <= 2
            /\ Len(calls) >= 1 => calls[1].method = "Update"
            /\ Len(calls) = 2 => (calls[1].res = "ok" /\ calls[2].method = "Get")

\* an Update that made its two calls
C4_Witness ==
    /\ last.op = "Update"
    /\ Len(last.res.calls) = 2
    /\ last.res.wrote

\* C5: an invocation of the accounts client sends at most one HTTP request,
\* and when the request fails (transport error, rejected status, undecodable
\* body) it ends with exactly one error and no further request.
C5_NoRetry ==
    acc.op # "none" =>
      /\ Len(acc.out.sent) <= 1
      /\ Len(acc.out.errs) <= 1
      /\ (/\ acc.in.encodeOk /\ acc.in.reqOk
          /\ \/ ~acc.in.resp.transportOk
             \/ acc.in.resp.status \notin {200, 204}
             \/ (acc.op = "Get" /\ acc.in.resp.status # 200)
             \/ (acc.op = "Get" /\ ~acc.in.resp.bodyOk))
            => (Len(acc.out.errs) = 1 /\ Len(acc.out.sent) = 1)

\* a request that failed in the transport
C5_Witness ==
    /\ acc.op = "Update"
    /\ acc.in.encodeOk /\ acc.in.reqOk /\ ~acc.in.resp.transportOk
    /\ acc.out.errs = <<"http error">>
    /\ Len(acc.out.sent) = 1

\* the handler wrote the state and reported no error
Succeeded == last.res.wrote /\ ~last.res.panicked /\ ~HasError(last.res.diags)

\* every attribute the API response carries has the response's value
Matches(st, dep) ==
    /\ uuidParse(st.id).ok /\ uuidParse(st.id).uuid = dep.ID
    /\ st.created = (IF dep.Created = NilTime THEN Null ELSE dep.Created)
    /\ st.updated = (IF dep.Updated = NilTime THEN Null ELSE dep.Updated)
    /\ st.name = dep.Name
    /\ uuidParse(st.flow_id).ok /\ uuidParse(st.flow_id).uuid = dep.FlowID
    /\ st.description = dep.Description
    /\ st.entrypoint = dep.Entrypoint
    /\ st.manifest_path = dep.ManifestPath
    /\ st.path = dep.Path
    /\ (st.paused = "true") = dep.Paused
    /\ (st.enforce_parameter_schema = "true") = dep.EnforceParameterSchema
    /\ st.version = dep.Version
    /\ st.work_pool_name = dep.WorkPoolName
    /\ st.work_queue_name = dep.WorkQueueName
    /\ st.tags.null = dep.Tags.nil /\ st.tags.elems = dep.Tags.elems
    /\ ~st.parameters.null /\ jsonUnmarshal(st.parameters.text) = dep.Parameters

\* C6: after a successful Create, Read or Update the written state matches the
\* API response in every attribute the response carries, parameters included.
C6_StateMatchesResponse ==
    (last.op \in {"Create", "Read", "Update"} /\ Succeeded)
        => Matches(last.res.state, last.res.api)

\* C7: in every state the resource writes, id is a valid UUID string.
C7_IdIsUUID ==
    last.res.wrote => uuidParse(last.res.state.id).ok

\* C8: when the remote delete succeeds the response state Delete leaves holds
\* no resource data; when it fails Delete adds an error and writes no state.
C8_DeleteRemovesState ==
    last.op = "Delete" =>
      \A i \in 1..Len(last.res.calls) :
        /\ last.res.calls[i].res = "ok" => last.res.state = NoState
        /\ last.res.calls[i].res = "err" =>
             (HasError(last.res.diags) /\ ~last.res.wrote)

\* C9: Update issues the refresh Get only after the update call returned
\* without error, writes the state only after both calls succeeded, and when
\* either call fails adds an error diagnostic and writes no state.
C9_UpdateWritesOnSuccessInOrder ==
    last.op = "Update" =>
      LET calls == last.res.calls
      IN /\ \A i \in 1..Len(calls) :
              calls[i].method = "Get" =>
                (i = 2 /\ calls[1].method = "Update" /\ calls[1].res = "ok")
         /\ last.res.wrote =>
              /\ calls = <<[method |-> "Update", res |-> "ok"],
                           [method |-> "Get", res |-> "ok"]>>
              /\ ~HasError(last.res.diags)
         /\ (\E i \in 1..Len(calls) : calls[i].res = "err") =>
              /\ HasError(last.res.diags)
              /\ ~last.res.wrote
              /\ last.res.state = last.in.prior

\* an Update whose refresh failed after the update call succeeded
C9_Witness ==
    /\ last.op = "Update"
    /\ Len(last.res.calls) = 2
    /\ last.res.calls[1].res = "ok"
    /\ last.res.calls[2].res = "err"
    /\ ~last.res.wrote

\* C10: when r.client.Deployments returns an error, Create, Read, Update and
\* Delete end with an error diagnostic without invoking any method on the
\* client value returned with the error.
C10_NoCallOnFailedClient ==
    (last.op \in CRUD /\ last.in.planOk /\ last.in.client # "ok")
        => (HasError(last.res.diags) /\ last.res.calls = <<>>)

====
